---------------------------- MODULE Spec2Model ----------------------------
(***************************************************************************)
(* Health monitoring of a deployment (services/healthcheck.service.ts):    *)
(* the prober checkDeploymentHealth with its retry recursion, and the      *)
(* monitor setupHealthMonitoring with its repeating timer, its streak      *)
(* counters, its console notices and its log file; and the deployment     *)
(* that starts it: deploy (index.ts) with the Vercel API call              *)
(* makeVercelApiCall (services/vercel.service.ts) and its retries.         *)
(*                                                                         *)
(* Time is explicit.  The clock `now` counts whole seconds; every duration *)
(* of the program is kept in milliseconds, as in the source, and Ms        *)
(* converts.  A pending HTTP request ends at any instant up to its axios   *)
(* timeout, a retry sleep ends exactly RETRY_DELAY_MS after it began, and  *)
(* the interval timer fires every checkIntervalMs while it is armed.       *)
(*                                                                         *)
(* An async function runs synchronously up to its first pending await, so  *)
(* one action is one such run: from a timer firing, a promise settling or  *)
(* a call of the caller, up to the next await that has to wait.            *)
(***************************************************************************)
EXTENDS Integers, Sequences, FiniteSets, TLC

VARIABLES
  now,         \* the clock, in seconds
  sessions,    \* the monitoring sessions, in the order of their start
  probes,      \* the calls of checkDeploymentHealth, in the order of their start
  files,       \* the log directory: file name -> lines
  console,     \* the lines printed by the monitor
  rejections,  \* the probes whose log step threw (unhandled promise rejections)
  alive,       \* the process has not been terminated
  limits,      \* the bounds of the exploration, fixed by the initial state
  token,       \* process.env.VERCEL_TOKEN is set
  call,        \* the call of makeVercelApiCall in progress, with its retries
  deploy       \* the run of deploy

\* the state of the monitoring side (healthcheck.service.ts)
monitor == <<sessions, probes, files, console, rejections, alive>>

\* the state of the deployment side (vercel.service.ts, index.ts)
outer == <<token, call, deploy>>

vars == <<now, sessions, probes, files, console, rejections, alive, limits, outer>>

-----------------------------------------------------------------------------
(* Bounds of the exploration. *)

\* the last instant (in seconds) the clock of Spec reaches
MaxTime == 3
\* the last instant the clock of SpecSink reaches, and the number of appends
\* to the log file that fail there
MaxSinkTime == 3
MaxSinkFailures == 1
\* the number of times the caller invokes one session's cancel function
MaxCancels == 2
\* the last instant the clock of SpecStreak reaches
MaxStreakTime == 20
\* the last instant the clock of SpecLive reaches
MaxLiveTime == 6
\* the number of sessions of SpecTwo and the last instant its clock reaches
MaxSessions == 2
MaxTwoTime == 2
\* the last instant the clock of SpecProbe reaches
MaxProbeTime == 16
\* the last instant the clock of SpecApi reaches
MaxApiTime == 7
\* the last instant the clock of SpecDeploy reaches
MaxDeployTime == 2

(* Program constants. *)

MAX_RETRIES == 3
RETRY_DELAY_MS == 1000
DefaultTimeoutMs == 5000
DefaultCheckIntervalMs == 30000
UnavailableStatus == 503
StableEvery == 5
AlertThreshold == 3
\* MAX_RETRIES and RETRY_DELAY_MS of services/vercel.service.ts
VERCEL_MAX_RETRIES == 3
VERCEL_RETRY_DELAY_MS == 2000

(* Inputs. *)

Urls == {"https://app.example"}
ExpectedStatuses == {200, 503}
TimeoutOptions == {1000, 3000}
CheckIntervalOptions == {2000, 3000}
ResponseStatuses == {200, 500, 503}
\* what the HTTP client can throw: an Error instance, another object carrying
\* a message, a string, or a value with no message at all (null, undefined)
ThrownKinds == {"Error", "object", "string", "other"}

Configs ==
  [expectedStatus : ExpectedStatuses,
   timeoutMs : TimeoutOptions,
   checkIntervalMs : CheckIntervalOptions]

Ms(t) == t * 1000

-----------------------------------------------------------------------------
(* Optional values: the empty set is undefined, {v} is the value v. *)

Undefined == {}
Some(v) == {v}
Get(o) == CHOOSE v \in o : TRUE

\* JavaScript truthiness of an optional string
Truthy(o) == o # Undefined /\ Get(o) # ""

\* x || d for an optional number option
OrDefault(x, d) == IF x = 0 THEN d ELSE x

TimeoutOf(config) == OrDefault(config.timeoutMs, DefaultTimeoutMs)
IntervalOf(config) == OrDefault(config.checkIntervalMs, DefaultCheckIntervalMs)

-----------------------------------------------------------------------------
(* The prober: checkDeploymentHealth. *)

\* the value thrown by a failed request
Thrown(kind, atDeadline) ==
  [kind |-> kind,
   message |-> IF kind = "other" THEN Undefined
               ELSE IF kind = "Error" /\ atDeadline THEN Some("timeout exceeded")
               ELSE IF kind = "Error" THEN Some("connect ECONNREFUSED")
               ELSE IF kind = "object" THEN Some("getaddrinfo ENOTFOUND")
               ELSE Some("request aborted")]

\* error && typeof error === 'object' && 'message' in error
HasMessage(error) == error.kind \in {"Error", "object"}

\* variant: one retry more
ShouldRetryOneMore(error, retryCount) ==
  HasMessage(error) /\ retryCount < MAX_RETRIES + 1

\* variant: one retry fewer
ShouldRetryOneFewer(error, retryCount) ==
  HasMessage(error) /\ retryCount < MAX_RETRIES - 1

\* the retry condition of the catch block
ShouldRetry(error, retryCount) ==
  HasMessage(error) /\ retryCount < MAX_RETRIES

\* the error text of the synthetic result
ErrorText(error) ==
  IF error.kind = "Error" THEN Get(error.message)
  ELSE IF error.kind = "string" THEN Get(error.message)
  ELSE IF HasMessage(error) THEN Get(error.message)
  ELSE "Unknown error"

\* `${responseTime}ms`
FormatMs(n) == <<n, "ms">>

\* variant: healthy means 200, whatever the configuration expects
ResponseResultExpects200(timestamp, url, config, status, responseTime) ==
  [timestamp |-> timestamp,
   url |-> url,
   status |-> status,
   healthy |-> (status = 200),
   responseTime |-> Some(FormatMs(responseTime)),
   error |-> Undefined]

\* the result built from a received response
ResponseResult(timestamp, url, config, status, responseTime) ==
  [timestamp |-> timestamp,
   url |-> url,
   status |-> status,
   healthy |-> (status = config.expectedStatus),
   responseTime |-> Some(FormatMs(responseTime)),
   error |-> Undefined]

\* variant: the synthetic result carries a response time as well
FailureResultTimed(timestamp, url, error) ==
  [timestamp |-> timestamp,
   url |-> url,
   status |-> UnavailableStatus,
   healthy |-> FALSE,
   responseTime |-> Some(FormatMs(0)),
   error |-> Some(ErrorText(error))]

\* the synthetic result of the catch block
FailureResult(timestamp, url, error) ==
  [timestamp |-> timestamp,
   url |-> url,
   status |-> UnavailableStatus,
   healthy |-> FALSE,
   responseTime |-> Undefined,
   error |-> Some(ErrorText(error))]

\* a call of checkDeploymentHealth(url, config) up to its first await: the
\* timestamp is taken and the request is issued.
\*   pc         "request" (awaiting axios), "sleep" (awaiting the retry delay),
\*              "done" (resolved with `result`) or "rejected" (threw)
\*   since      the instant the pending request or sleep began
\*   thrown     the value caught by the catch block, while it is in scope
\*   received   the status of the response that answered the request
\*   requests, slept, startedAt   bookkeeping: the requests issued so far,
\*              the time spent in retry sleeps, the instant of the first call
NewProbe(s, kind) ==
  [session |-> s,
   kind |-> kind,
   retryCount |-> 0,
   timestamp |-> Ms(now),
   pc |-> "request",
   since |-> Ms(now),
   thrown |-> Undefined,
   received |-> Undefined,
   requests |-> 1,
   slept |-> 0,
   startedAt |-> Ms(now),
   result |-> Undefined]

-----------------------------------------------------------------------------
(* The monitor: setupHealthMonitoring and its closure logHealthCheck. *)

\* variant: the counters only flag the last classification
StreaksAfterNoCount(sess, health) ==
  IF health.healthy
    THEN [healthyStreak |-> 1, unhealthyStreak |-> 0]
    ELSE [healthyStreak |-> 0, unhealthyStreak |-> 1]

\* variant: the other counter is not reset
StreaksAfterNoReset(sess, health) ==
  IF health.healthy
    THEN [healthyStreak |-> sess.healthyStreak + 1,
          unhealthyStreak |-> sess.unhealthyStreak]
    ELSE [healthyStreak |-> sess.healthyStreak,
          unhealthyStreak |-> sess.unhealthyStreak + 1]

\* the streak counters after a result
StreaksAfter(sess, health) ==
  IF health.healthy
    THEN [healthyStreak |-> sess.healthyStreak + 1, unhealthyStreak |-> 0]
    ELSE [healthyStreak |-> 0, unhealthyStreak |-> sess.unhealthyStreak + 1]

\* the line appended to the log file
LogLine(health) ==
  [timestamp |-> health.timestamp,
   level |-> IF health.healthy THEN "INFO" ELSE "ERROR",
   url |-> health.url,
   status |-> health.status,
   mark |-> IF health.healthy THEN "ok" ELSE "fail",
   responseTime |-> IF Truthy(health.responseTime) THEN health.responseTime ELSE Some(""),
   error |-> IF Truthy(health.error) THEN health.error ELSE Some("")]

Notice(s, msg, n) == [session |-> s, msg |-> msg, n |-> n]

\* variant: every healthy probe is announced
NoticesEveryPass(s, health, streaks) ==
  IF health.healthy
    THEN IF streaks.healthyStreak % StableEvery = 0
           THEN <<Notice(s, "stable", streaks.healthyStreak)>>
           ELSE <<Notice(s, "passed", health.status)>>
    ELSE <<Notice(s, "failed", health.status)>>
         \o (IF streaks.unhealthyStreak >= AlertThreshold
               THEN <<Notice(s, "ALERT", streaks.unhealthyStreak)>>
               ELSE <<>>)

\* variant: the alert is raised only when the streak reaches the threshold
NoticesAlertOnce(s, health, streaks) ==
  IF health.healthy
    THEN IF streaks.healthyStreak = 1
           THEN <<Notice(s, "passed", health.status)>>
         ELSE IF streaks.healthyStreak % StableEvery = 0
           THEN <<Notice(s, "stable", streaks.healthyStreak)>>
         ELSE <<>>
    ELSE <<Notice(s, "failed", health.status)>>
         \o (IF streaks.unhealthyStreak = AlertThreshold
               THEN <<Notice(s, "ALERT", streaks.unhealthyStreak)>>
               ELSE <<>>)

\* what the log step prints on the console
Notices(s, health, streaks) ==
  IF health.healthy
    THEN IF streaks.healthyStreak = 1
           THEN <<Notice(s, "passed", health.status)>>
         ELSE IF streaks.healthyStreak % StableEvery = 0
           THEN <<Notice(s, "stable", streaks.healthyStreak)>>
         ELSE <<>>
    ELSE <<Notice(s, "failed", health.status)>>
         \o (IF streaks.unhealthyStreak >= AlertThreshold
               THEN <<Notice(s, "ALERT", streaks.unhealthyStreak)>>
               ELSE <<>>)

FileLines(name) == IF name \in DOMAIN files THEN files[name] ELSE <<>>

\* variant: the file is written anew instead of appended to
AppendFileOverwrites(name, line) ==
  [n \in DOMAIN files \cup {name} |-> IF n = name THEN <<line>> ELSE files[n]]

\* fs.appendFileSync: creates the file when it does not exist
AppendFile(name, line) ==
  [n \in DOMAIN files \cup {name} |->
     IF n = name THEN Append(FileLines(name), line) ELSE files[n]]

\* the outcomes of an append to the log file: TRUE when it succeeds
SinkOutcomes == IF Len(rejections) < limits.sinkFailures THEN {TRUE, FALSE} ELSE {TRUE}

\* logHealthCheck(health), called with the result of probe p.  When
\* fs.appendFileSync throws, the counters and the console have already
\* changed; the exception rejects a promise nobody handles, which ends the
\* process or only prints a warning, depending on the runtime.
logHealthCheck(p, health, appended) ==
  LET s == probes[p].session
      sess == sessions[s]
      streaks == StreaksAfter(sess, health)
  IN /\ sessions' = [sessions EXCEPT ![s] =
                       [@ EXCEPT !.healthyStreak = streaks.healthyStreak,
                                 !.unhealthyStreak = streaks.unhealthyStreak,
                                 !.logged = Append(@, p)]]
     /\ console' = console \o Notices(s, health, streaks)
     /\ IF appended
          THEN /\ files' = AppendFile(sess.logFile, LogLine(health))
               /\ UNCHANGED <<rejections, alive>>
          ELSE /\ UNCHANGED files
               /\ rejections' = Append(rejections, p)
               /\ alive' \in BOOLEAN

\* setupHealthMonitoring(url, config): the counters, the log file name, the
\* immediate probe and the interval timer
setupHealthMonitoring(url, config) ==
  /\ alive
  /\ Len(sessions) < limits.sessions
  /\ sessions' = Append(sessions,
       [url |-> url,
        config |-> config,
        logFile |-> Ms(now),
        healthyStreak |-> 0,
        unhealthyStreak |-> 0,
        interval |-> "armed",
        nextFire |-> Ms(now) + IntervalOf(config),
        logged |-> <<>>,
        cancelCalls |-> 0])
  /\ probes' = Append(probes, NewProbe(Len(sessions) + 1, "initial"))
  /\ console' = Append(console, Notice(Len(sessions) + 1, "started", 0))
  /\ UNCHANGED <<now, files, rejections, alive, limits>>

\* variant: the timer fires once and is then spent
TimerFireOnce(s) ==
  /\ alive
  /\ sessions[s].interval = "armed"
  /\ Ms(now) >= sessions[s].nextFire
  /\ sessions' = [sessions EXCEPT ![s].interval = "cleared"]
  /\ probes' = Append(probes, NewProbe(s, "timer"))
  /\ UNCHANGED <<now, files, console, rejections, alive, limits>>

\* the callback of setInterval, up to the await of the probe
TimerFire(s) ==
  /\ alive
  /\ sessions[s].interval = "armed"
  /\ Ms(now) >= sessions[s].nextFire
  /\ sessions' = [sessions EXCEPT ![s].nextFire = @ + IntervalOf(sessions[s].config)]
  /\ probes' = Append(probes, NewProbe(s, "timer"))
  /\ UNCHANGED <<now, files, console, rejections, alive, limits>>

\* variant: the stop is announced but the timer is left armed
cancelFnKeepsTimer(s) ==
  /\ alive
  /\ sessions[s].cancelCalls < limits.cancels
  /\ sessions' = [sessions EXCEPT ![s].cancelCalls = @ + 1]
  /\ console' = Append(console, Notice(s, "stopped", 0))
  /\ UNCHANGED <<now, probes, files, rejections, alive, limits>>

\* variant: every call also discards the streak counters
cancelFnResetsStreaks(s) ==
  /\ alive
  /\ sessions[s].cancelCalls < limits.cancels
  /\ sessions' = [sessions EXCEPT ![s].interval = "cleared",
                                  ![s].cancelCalls = @ + 1,
                                  ![s].healthyStreak = 0,
                                  ![s].unhealthyStreak = 0]
  /\ console' = Append(console, Notice(s, "stopped", 0))
  /\ UNCHANGED <<now, probes, files, rejections, alive, limits>>

\* the returned cancel function
cancelFn(s) ==
  /\ alive
  /\ sessions[s].cancelCalls < limits.cancels
  /\ sessions' = [sessions EXCEPT ![s].interval = "cleared",
                                  ![s].cancelCalls = @ + 1]
  /\ console' = Append(console, Notice(s, "stopped", 0))
  /\ UNCHANGED <<now, probes, files, rejections, alive, limits>>

-----------------------------------------------------------------------------
(* The continuations of a probe. *)

\* variant: a 5xx response is retried like a transport failure
HttpResponseRetries5xx(p, status, appended) ==
  LET pr == probes[p]
      sess == sessions[pr.session]
      health == ResponseResult(pr.timestamp, sess.url, sess.config, status,
                               Ms(now) - pr.since)
  IN /\ alive
     /\ pr.pc = "request"
     /\ IF status >= 500 /\ pr.retryCount < MAX_RETRIES
          THEN /\ appended
               /\ probes' = [probes EXCEPT ![p].pc = "sleep", ![p].since = Ms(now)]
               /\ UNCHANGED <<sessions, files, console, rejections, alive>>
          ELSE /\ probes' = [probes EXCEPT ![p].pc = "done",
                                           ![p].received = Some(status),
                                           ![p].result = Some(health)]
               /\ logHealthCheck(p, health, appended)
     /\ UNCHANGED <<now, limits>>

\* the request of probe p is answered: the result is built, returned through
\* the recursion and handed to logHealthCheck
HttpResponse(p, status, appended) ==
  LET pr == probes[p]
      sess == sessions[pr.session]
      health == ResponseResult(pr.timestamp, sess.url, sess.config, status,
                               Ms(now) - pr.since)
  IN /\ alive
     /\ pr.pc = "request"
     /\ probes' = [probes EXCEPT ![p].pc = "done",
                                 ![p].received = Some(status),
                                 ![p].result = Some(health)]
     /\ logHealthCheck(p, health, appended)
     /\ UNCHANGED <<now, limits>>

\* variant: once no retry is left the catch block throws the error again
HttpErrorRethrows(p, kind, appended) ==
  LET pr == probes[p]
      sess == sessions[pr.session]
      error == Thrown(kind, Ms(now) = pr.since + TimeoutOf(sess.config))
  IN /\ alive
     /\ pr.pc = "request"
     /\ appended
     /\ probes' = [probes EXCEPT ![p].pc = IF ShouldRetry(error, pr.retryCount)
                                             THEN "sleep" ELSE "rejected",
                                 ![p].since = Ms(now),
                                 ![p].thrown = Some(error)]
     /\ UNCHANGED <<now, sessions, files, console, rejections, alive, limits>>

\* the request of probe p throws: the catch block either sleeps before the
\* recursive call or returns the synthetic result, which is logged (the
\* "retrying" line it prints before the sleep is not kept on `console`)
HttpError(p, kind, appended) ==
  LET pr == probes[p]
      sess == sessions[pr.session]
      error == Thrown(kind, Ms(now) = pr.since + TimeoutOf(sess.config))
      health == FailureResult(pr.timestamp, sess.url, error)
  IN /\ alive
     /\ pr.pc = "request"
     /\ IF ShouldRetry(error, pr.retryCount)
          THEN /\ appended
               /\ probes' = [probes EXCEPT ![p].pc = "sleep",
                                           ![p].since = Ms(now),
                                           ![p].thrown = Some(error)]
               /\ UNCHANGED <<sessions, files, console, rejections, alive>>
          ELSE /\ probes' = [probes EXCEPT ![p].pc = "done",
                                           ![p].thrown = Some(error),
                                           ![p].result = Some(health)]
               /\ logHealthCheck(p, health, appended)
     /\ UNCHANGED <<now, limits>>

\* the retry sleep is over: the recursive call takes a new timestamp and
\* issues the next request
RetryWake(p) ==
  LET pr == probes[p]
  IN /\ alive
     /\ pr.pc = "sleep"
     /\ Ms(now) >= pr.since + RETRY_DELAY_MS
     /\ probes' = [probes EXCEPT ![p].pc = "request",
                                 ![p].retryCount = @ + 1,
                                 ![p].timestamp = Ms(now),
                                 ![p].since = Ms(now),
                                 ![p].thrown = Undefined,
                                 ![p].requests = @ + 1,
                                 ![p].slept = @ + (Ms(now) - pr.since)]
     /\ UNCHANGED <<now, sessions, files, console, rejections, alive, limits>>

-----------------------------------------------------------------------------
(* The Vercel API call: makeVercelApiCall. *)

ApiPurposes == {"env", "deploy", "status"}
ApiFailureStatuses == {404, 500}
ApiNetworkCodes == {"ECONNRESET", "ETIMEDOUT"}

\* what axios throws (it rejects every status outside 2xx): an error with
\* the response it received, or an error of the connection.  An error of the
\* connection has no response; whether it then has a `response` property at
\* all (holding undefined) depends on the axios release: before 0.27 every
\* error is given one, from 0.27 on only an error with a response.
ApiErrors ==
  {[hasResponse |-> TRUE, status |-> Some(st),
    code |-> IF st >= 500 THEN "ERR_BAD_RESPONSE" ELSE "ERR_BAD_REQUEST"] :
      st \in ApiFailureStatuses}
  \cup
  {[hasResponse |-> h, status |-> Undefined, code |-> c] :
      h \in BOOLEAN, c \in ApiNetworkCodes}

\* what the API answers with: the deployment data, with or without a url
ApiData == {[url |-> Some(u)] : u \in Urls} \cup {[url |-> Undefined]}

NoCall ==
  [pc |-> "idle", purpose |-> "none", retryCount |-> 0, requests |-> 0,
   since |-> 0, slept |-> 0, caught |-> Undefined, data |-> Undefined]

\* the call with retryCount = 0, up to the await of axios: without a token
\* it throws before any request
NewCall(purpose) ==
  IF token
    THEN [NoCall EXCEPT !.pc = "request", !.purpose = purpose, !.requests = 1,
                        !.since = Ms(now)]
    ELSE [NoCall EXCEPT !.pc = "thrown", !.purpose = purpose]

\* variant: the retry test lets one more retry through
ShouldRetryApiOneMore(error, retryCount) ==
  /\ error.hasResponse
  /\ retryCount <= VERCEL_MAX_RETRIES
  /\ \/ (error.status # Undefined /\ Get(error.status) >= 500)
     \/ error.code = "ECONNRESET"

\* the retry test of the catch block
ShouldRetryApi(error, retryCount) ==
  /\ error.hasResponse
  /\ retryCount < VERCEL_MAX_RETRIES
  /\ \/ (error.status # Undefined /\ Get(error.status) >= 500)
     \/ error.code = "ECONNRESET"

\* the request is answered with a 2xx status: response.data is returned
ApiReturn(data) ==
  /\ call.pc = "request"
  /\ call' = [call EXCEPT !.pc = "returned", !.data = Some(data)]

\* the request throws: the catch block sleeps before the recursive call, or
\* throws an Error with the message it has built
ApiThrow(error) ==
  /\ call.pc = "request"
  /\ call' = [call EXCEPT
                !.pc = IF ShouldRetryApi(error, call.retryCount) THEN "sleep" ELSE "thrown",
                !.since = Ms(now),
                !.caught = Some(error)]

\* the retry sleep is over: the recursive call tests the token and issues
\* the next request
ApiRetry ==
  /\ call.pc = "sleep"
  /\ Ms(now) >= call.since + VERCEL_RETRY_DELAY_MS
  /\ call' = IF token
               THEN [call EXCEPT !.pc = "request",
                                 !.retryCount = @ + 1,
                                 !.requests = @ + 1,
                                 !.slept = @ + (Ms(now) - call.since),
                                 !.since = Ms(now),
                                 !.caught = Undefined]
               ELSE [call EXCEPT !.pc = "thrown", !.retryCount = @ + 1]

-----------------------------------------------------------------------------
(* The deployment: deploy. *)

\* the environment entry of autodeploy.config.json that deploy reads:
\* analytics configured or not, environment variables to set or none, and
\* the health check configuration
DeployConfigs ==
  [analytics : BOOLEAN, environmentVariables : BOOLEAN, healthCheck : Configs]

\* the steps of the try block, in the order of the source
DeploySteps ==
  <<"runPreDeployChecks", "validateEnvironment", "setVercelEnvironment",
    "deployToVercel", "setupHealthMonitoring">>

\* pc is the await at which the run stands, or how it ended: "returned" (the
\* url), "aborted" (the Error 'Deployment aborted: ...' of the catch block)
\* or "thrown" (an error raised before the try block)
NoDeploy ==
  [pc |-> "idle", config |-> Undefined, steps |-> <<>>, events |-> <<>>,
   url |-> Undefined, error |-> Undefined]

\* the catch block, up to its first await or to its throw
Caught(d, error) ==
  [d EXCEPT !.error = Some(error),
            !.pc = IF Get(d.config).analytics THEN "sendFailure" ELSE "aborted"]

Ran(d, step) == [d EXCEPT !.steps = Append(@, step)]

\* lines 27-32: the pre-deploy checks, the validation of the environment,
\* and the call of setVercelEnvironment up to its await (it returns at once
\* when there are no environment variables to set)
Checks(d, checksOk, validOk) ==
  LET d1 == Ran(d, "runPreDeployChecks")
      d2 == Ran(d1, "validateEnvironment")
      d3 == Ran(d2, "setVercelEnvironment")
  IN IF ~checksOk
       THEN [deploy |-> Caught(d1, "Pre-deployment checks failed"), call |-> call]
     ELSE IF ~(validOk /\ token)
       THEN [deploy |-> Caught(d2, "Environment validation failed"), call |-> call]
     ELSE [deploy |-> [d3 EXCEPT !.pc = "setEnv"],
           call |-> IF Get(d.config).environmentVariables
                      THEN NewCall("env") ELSE NoCall]

\* lines 46-57: the monitor is started on the deployment url (its log
\* directory is made first, which may throw), the metrics are closed, and
\* the url is returned, after the metrics report when analytics is on
Monitor(d) ==
  LET d1 == Ran(d, "setupHealthMonitoring")
  IN \E made \in BOOLEAN :
       IF made
         THEN /\ setupHealthMonitoring(Get(d.url), Get(d.config).healthCheck)
              /\ deploy' = [d1 EXCEPT !.pc = IF Get(d.config).analytics
                                               THEN "sendReport" ELSE "returned"]
         ELSE /\ deploy' = Caught(d1, "EACCES: permission denied, mkdir")
              /\ UNCHANGED <<now, monitor, limits>>

\* deploy is called: it awaits loadConfig
DeployCall ==
  /\ deploy.pc = "idle"
  /\ deploy' = [deploy EXCEPT !.pc = "loadConfig"]
  /\ UNCHANGED <<now, monitor, limits, token, call>>

\* variant: a failed analytics request becomes the error of the run
SentOrThrown(d, name, delivered) ==
  [d EXCEPT !.events = Append(@, [name |-> name, delivered |-> delivered]),
            !.error = IF delivered THEN @ ELSE Some("Analytics event failed")]

\* an analytics request has settled: sendDeploymentEvent and
\* sendMetricsReport catch a failed request, so they return either way
Sent(d, name, delivered) ==
  [d EXCEPT !.events = Append(@, [name |-> name, delivered |-> delivered])]

\* loadConfig has settled: without the configuration or the environment
\* entry deploy throws before the try block; with analytics it awaits the
\* deploy_start event, else it runs on to the checks
DeployLoaded ==
  /\ deploy.pc = "loadConfig"
  /\ \E loaded \in BOOLEAN, config \in DeployConfigs, checksOk \in BOOLEAN, validOk \in BOOLEAN :
       LET d == [deploy EXCEPT !.config = Some(config)]
           r == Checks(d, checksOk, validOk)
       IN IF ~loaded
            THEN /\ deploy' = [deploy EXCEPT !.pc = "thrown",
                                             !.error = Some("Failed to load configuration")]
                 /\ UNCHANGED call
          ELSE IF config.analytics
            THEN /\ deploy' = [d EXCEPT !.pc = "sendStart"]
                 /\ UNCHANGED call
          ELSE /\ deploy' = r.deploy
               /\ call' = r.call
  /\ UNCHANGED <<now, monitor, limits, token>>

\* the deploy_start event has settled: on to the checks
DeployStartSent ==
  /\ deploy.pc = "sendStart"
  /\ \E delivered \in BOOLEAN, checksOk \in BOOLEAN, validOk \in BOOLEAN :
       LET r == Checks(Sent(deploy, "deploy_start", delivered), checksOk, validOk)
       IN /\ deploy' = r.deploy
          /\ call' = r.call
  /\ UNCHANGED <<now, monitor, limits, token>>

\* setVercelEnvironment has settled: its error is caught, else
\* deployToVercel is called, up to the await of its API call
DeployEnvSet ==
  /\ deploy.pc = "setEnv"
  /\ IF Get(deploy.config).environmentVariables
       THEN call.pc \in {"returned", "thrown"}
       ELSE call.pc = "idle"
  /\ IF call.pc = "thrown"
       THEN /\ deploy' = Caught(deploy, "Failed to set environment variables")
            /\ call' = NoCall
       ELSE /\ deploy' = [Ran(deploy, "deployToVercel") EXCEPT !.pc = "trigger"]
            /\ call' = NewCall("deploy")
  /\ UNCHANGED <<now, monitor, limits, token>>

\* variant: a deployment answered without a url is monitored all the same
DeployTriggeredAnyway ==
  /\ deploy.pc = "trigger"
  /\ call.pc \in {"returned", "thrown"}
  /\ call' = NoCall
  /\ UNCHANGED token
  /\ IF call.pc = "thrown"
       THEN /\ deploy' = Caught(deploy, "Failed to deploy to Vercel")
            /\ UNCHANGED <<now, monitor, limits>>
     ELSE LET d == [deploy EXCEPT !.url = IF Get(call.data).url = Undefined
                                            THEN Some(CHOOSE u \in Urls : TRUE)
                                            ELSE Get(call.data).url]
          IN IF Get(deploy.config).analytics
               THEN /\ deploy' = [d EXCEPT !.pc = "sendSuccess"]
                    /\ UNCHANGED <<now, monitor, limits>>
               ELSE Monitor(d)

\* deployToVercel has settled: an error of the API call, or an answer
\* without a url, is caught; else the deploy_success event is awaited, or
\* without analytics the monitor is started at once
DeployTriggered ==
  /\ deploy.pc = "trigger"
  /\ call.pc \in {"returned", "thrown"}
  /\ call' = NoCall
  /\ UNCHANGED token
  /\ IF call.pc = "thrown"
       THEN /\ deploy' = Caught(deploy, "Failed to deploy to Vercel")
            /\ UNCHANGED <<now, monitor, limits>>
     ELSE IF Get(call.data).url = Undefined
       THEN /\ deploy' = Caught(deploy, "Deployment started but no URL was returned")
            /\ UNCHANGED <<now, monitor, limits>>
     ELSE LET d == [deploy EXCEPT !.url = Get(call.data).url]
          IN IF Get(deploy.config).analytics
               THEN /\ deploy' = [d EXCEPT !.pc = "sendSuccess"]
                    /\ UNCHANGED <<now, monitor, limits>>
               ELSE Monitor(d)

\* the deploy_success event has settled: on to the monitor
DeploySuccessSent ==
  /\ deploy.pc = "sendSuccess"
  /\ \E delivered \in BOOLEAN : Monitor(Sent(deploy, "deploy_success", delivered))
  /\ UNCHANGED <<token, call>>

\* the metrics report of the try block has settled (deploy returns the
\* url), or the deploy_failure event or the metrics report of the catch
\* block has (after the report deploy throws)
DeployReportSent ==
  /\ deploy.pc \in {"sendReport", "sendFailure", "sendFailureReport"}
  /\ \E delivered \in BOOLEAN :
       deploy' =
         IF deploy.pc = "sendReport"
           THEN [Sent(deploy, "metrics_report", delivered) EXCEPT !.pc = "returned"]
         ELSE IF deploy.pc = "sendFailure"
           THEN [Sent(deploy, "deploy_failure", delivered) EXCEPT !.pc = "sendFailureReport"]
         ELSE [Sent(deploy, "metrics_report", delivered) EXCEPT !.pc = "aborted"]
  /\ UNCHANGED <<now, monitor, limits, token, call>>

-----------------------------------------------------------------------------
(* The clock. *)

\* nothing is overdue: no armed timer, pending request or sleep has reached
\* its instant without being served
NothingDue ==
  /\ \A s \in 1..Len(sessions) :
       sessions[s].interval = "armed" => Ms(now) < sessions[s].nextFire
  /\ \A p \in 1..Len(probes) :
       /\ probes[p].pc = "request" =>
            Ms(now) < probes[p].since + TimeoutOf(sessions[probes[p].session].config)
       /\ probes[p].pc = "sleep" => Ms(now) < probes[p].since + RETRY_DELAY_MS
  /\ call.pc = "sleep" => Ms(now) < call.since + VERCEL_RETRY_DELAY_MS

\* the clock is read from the first start on, and while an API call runs
AdvanceTime ==
  /\ alive
  /\ sessions # <<>> \/ call.pc \in {"request", "sleep"}
  /\ now < limits.horizon
  /\ NothingDue
  /\ now' = now + 1
  /\ UNCHANGED <<sessions, probes, files, console, rejections, alive, limits, outer>>

-----------------------------------------------------------------------------
(* Spec: one monitoring session against an endpoint that answers, fails or *)
(* times out as it likes, with a caller that cancels when it likes and a   *)
(* log file that can be written.                                           *)

Fresh ==
  /\ now = 0
  /\ sessions = <<>>
  /\ probes = <<>>
  /\ files = [n \in {} |-> <<>>]
  /\ console = <<>>
  /\ rejections = <<>>
  /\ alive = TRUE
  /\ call = NoCall
  /\ deploy = NoDeploy

Init ==
  /\ Fresh
  /\ token = TRUE
  /\ limits = [sessions |-> 1, horizon |-> MaxTime, cancels |-> MaxCancels,
               sinkFailures |-> 0]

Start ==
  /\ \E url \in Urls, config \in Configs : setupHealthMonitoring(url, config)
  /\ UNCHANGED outer
Tick == (\E s \in 1..Len(sessions) : TimerFire(s)) /\ UNCHANGED outer
Cancel == (\E s \in 1..Len(sessions) : cancelFn(s)) /\ UNCHANGED outer
Response ==
  /\ \E p \in 1..Len(probes), status \in ResponseStatuses, appended \in SinkOutcomes :
       HttpResponse(p, status, appended)
  /\ UNCHANGED outer
Failure ==
  /\ \E p \in 1..Len(probes), kind \in ThrownKinds, appended \in SinkOutcomes :
       HttpError(p, kind, appended)
  /\ UNCHANGED outer
Wake == (\E p \in 1..Len(probes) : RetryWake(p)) /\ UNCHANGED outer

Next ==
  \/ Start
  \/ Tick
  \/ Cancel
  \/ Response
  \/ Failure
  \/ Wake
  \/ AdvanceTime

Spec == Init /\ [][Next]_vars

-----------------------------------------------------------------------------
(* SpecSink: the same session when appends to the log file may fail (disk  *)
(* full, permission denied).                                               *)

InitSink ==
  /\ Fresh
  /\ token = TRUE
  /\ limits = [sessions |-> 1, horizon |-> MaxSinkTime, cancels |-> 1,
               sinkFailures |-> MaxSinkFailures]

SpecSink == InitSink /\ [][Next]_vars

-----------------------------------------------------------------------------
(* SpecStreak: a long session that is never cancelled, in which every      *)
(* request is settled within the second it was issued, by a response or by *)
(* a failure that is not retried, so that many probes are logged.          *)

InitStreak ==
  /\ Fresh
  /\ token = TRUE
  /\ limits = [sessions |-> 1, horizon |-> MaxStreakTime, cancels |-> 0,
               sinkFailures |-> 0]

PromptStatuses == {200, 503}
PromptThrownKinds == {"other"}

NoProbeInFlight == \A p \in 1..Len(probes) : probes[p].pc = "done"

PromptResponse ==
  /\ \E p \in 1..Len(probes), status \in PromptStatuses : HttpResponse(p, status, TRUE)
  /\ UNCHANGED outer
PromptFailure ==
  /\ \E p \in 1..Len(probes), kind \in PromptThrownKinds : HttpError(p, kind, TRUE)
  /\ UNCHANGED outer
PromptAdvance == NoProbeInFlight /\ AdvanceTime

NextStreak ==
  \/ Start
  \/ Tick
  \/ PromptResponse
  \/ PromptFailure
  \/ PromptAdvance

SpecStreak == InitStreak /\ [][NextStreak]_vars

-----------------------------------------------------------------------------
(* SpecLive: a session in which every request is settled within the second *)
(* it was issued, by a response or by a thrown error that may be retried,  *)
(* under a runtime that fires due timers, lets time pass and settles every *)
(* request.                                                                *)

InitLive ==
  /\ Fresh
  /\ token = TRUE
  /\ limits = [sessions |-> 1, horizon |-> MaxLiveTime, cancels |-> 1,
               sinkFailures |-> 0]

SettledThrownKinds == {"Error", "other"}

NoRequestPending == \A p \in 1..Len(probes) : probes[p].pc # "request"

SettledFailure ==
  /\ \E p \in 1..Len(probes), kind \in SettledThrownKinds : HttpError(p, kind, TRUE)
  /\ UNCHANGED outer
SettledAdvance == NoRequestPending /\ AdvanceTime

NextLive ==
  \/ Start
  \/ Tick
  \/ Cancel
  \/ PromptResponse
  \/ SettledFailure
  \/ Wake
  \/ SettledAdvance

SpecLive ==
  /\ InitLive
  /\ [][NextLive]_vars
  /\ WF_vars(Tick)
  /\ WF_vars(Wake)
  /\ WF_vars(PromptResponse \/ SettledFailure)
  /\ WF_vars(SettledAdvance)

-----------------------------------------------------------------------------
(* SpecTwo: two sessions started by one process, at the same instant or at *)
(* different ones, with a caller that cancels them when it likes, against  *)
(* an endpoint that settles every request within the second it was issued, *)
(* by a response or by a failure that is not retried.                      *)

InitTwo ==
  /\ Fresh
  /\ token = TRUE
  /\ limits = [sessions |-> MaxSessions, horizon |-> MaxTwoTime, cancels |-> 1,
               sinkFailures |-> 0]

NextTwo ==
  \/ Start
  \/ Tick
  \/ Cancel
  \/ PromptResponse
  \/ PromptFailure
  \/ PromptAdvance

SpecTwo == InitTwo /\ [][NextTwo]_vars

-----------------------------------------------------------------------------
(* SpecProbe: one probe on its own: the immediate probe of a session whose *)
(* timer is cancelled before it first fires, followed for as long as the   *)
(* probe can last.                                                         *)

InitProbe ==
  /\ Fresh
  /\ token = TRUE
  /\ limits = [sessions |-> 1, horizon |-> MaxProbeTime, cancels |-> 1,
               sinkFailures |-> 0]

CancelAtOnce == now = 0 /\ Cancel
AdvanceCancelled ==
  /\ \A s \in 1..Len(sessions) : sessions[s].interval = "cleared"
  /\ AdvanceTime

NextProbe ==
  \/ Start
  \/ CancelAtOnce
  \/ Response
  \/ Failure
  \/ Wake
  \/ AdvanceCancelled

SpecProbe == InitProbe /\ [][NextProbe]_vars

-----------------------------------------------------------------------------
(* SpecApi: one call of makeVercelApiCall on its own, as made by           *)
(* getDeploymentStatus, against an API that answers or fails as it likes,  *)
(* with or without a token in the environment.                             *)

InitApi ==
  /\ Fresh
  /\ token \in BOOLEAN
  /\ limits = [sessions |-> 0, horizon |-> MaxApiTime, cancels |-> 0,
               sinkFailures |-> 0]

ApiCall ==
  /\ call.pc = "idle"
  /\ call' = NewCall("status")
  /\ UNCHANGED <<now, monitor, limits, token, deploy>>
ApiResponse ==
  /\ \E data \in ApiData : ApiReturn(data)
  /\ UNCHANGED <<now, monitor, limits, token, deploy>>
ApiFailure ==
  /\ \E error \in ApiErrors : ApiThrow(error)
  /\ UNCHANGED <<now, monitor, limits, token, deploy>>
ApiWake == ApiRetry /\ UNCHANGED <<now, monitor, limits, token, deploy>>

NextApi ==
  \/ ApiCall
  \/ ApiResponse
  \/ ApiFailure
  \/ ApiWake
  \/ AdvanceTime

SpecApi == InitApi /\ [][NextApi]_vars

-----------------------------------------------------------------------------
(* SpecDeploy: one run of deploy, with the API calls it makes and the      *)
(* monitor it starts, against an API and an endpoint that answer or fail   *)
(* as they like.                                                           *)

InitDeploy ==
  /\ Fresh
  /\ token \in BOOLEAN
  /\ limits = [sessions |-> 1, horizon |-> MaxDeployTime, cancels |-> 0,
               sinkFailures |-> 0]

NextDeploy ==
  \/ DeployCall
  \/ DeployLoaded
  \/ DeployStartSent
  \/ DeployEnvSet
  \/ DeployTriggered
  \/ DeploySuccessSent
  \/ DeployReportSent
  \/ ApiResponse
  \/ ApiFailure
  \/ ApiWake
  \/ Tick
  \/ PromptResponse
  \/ PromptFailure
  \/ PromptAdvance

SpecDeploy == InitDeploy /\ [][NextDeploy]_vars

-----------------------------------------------------------------------------
(* Properties. *)

Sessions == 1..Len(sessions)
Probes == 1..Len(probes)
ProbesOf(s) == {p \in Probes : probes[p].session = s}
Done(p) == probes[p].pc = "done"
ResultOf(p) == Get(probes[p].result)

\* the probes of session s that are started and not yet logged
InFlight(s) == {p \in ProbesOf(s) : ~Done(p)}

\* C1 (as claimed): within one session at most one probe, with its retry
\* waits, is in flight at any moment.
NoProbeOverlap == \A s \in Sessions : Cardinality(InFlight(s)) <= 1

LinesIn(fs, name) == IF name \in DOMAIN fs THEN fs[name] ELSE <<>>

\* C2 (as claimed): once cancelFn has run, the log file of the session gets
\* no further line and its streak counters do not change.
NoLogAfterCancel ==
  [][\A s \in Sessions :
       sessions[s].cancelCalls >= 1 =>
         /\ LinesIn(files', sessions[s].logFile) = LinesIn(files, sessions[s].logFile)
         /\ sessions'[s].healthyStreak = sessions[s].healthyStreak
         /\ sessions'[s].unhealthyStreak = sessions[s].unhealthyStreak]_vars

\* the probe ended in the catch block on an error that carries a message,
\* which is what a transport failure (refused, reset, DNS, timeout) throws
EndedOnTransportFailure(p) ==
  /\ Done(p)
  /\ probes[p].thrown # Undefined
  /\ HasMessage(Get(probes[p].thrown))

\* C3 (as claimed): a probe all of whose attempts fail at transport level
\* has issued exactly 3 requests when it returns.
ThreeRequestsOnFailure ==
  \A p \in Probes : EndedOnTransportFailure(p) => probes[p].requests = 3

\* C3 (amended): such a probe has issued exactly 1 + MAX_RETRIES = 4
\* requests, has slept RETRY_DELAY_MS before each of the 3 retries, and
\* returns status 503, healthy false and the error; no probe ever issues a
\* 5th request.
FourRequestsOnFailure ==
  \A p \in Probes :
    /\ probes[p].requests <= 4
    /\ EndedOnTransportFailure(p) =>
         /\ probes[p].requests = 4
         /\ probes[p].slept = 3 * 1000
         /\ ResultOf(p).status = 503
         /\ ResultOf(p).healthy = FALSE
         /\ ResultOf(p).error # Undefined

FourRequestsWitness ==
  \E p \in Probes : EndedOnTransportFailure(p) /\ probes[p].requests = 4

ExpectedOf(p) == sessions[probes[p].session].config.expectedStatus

\* C4 (as claimed): every returned result is healthy exactly when its status
\* equals the expected status.
HealthyIffExpectedStatus ==
  \A p \in Probes :
    Done(p) => (ResultOf(p).healthy <=> ResultOf(p).status = ExpectedOf(p))

\* C4 (amended): a result is healthy exactly when it was built from a
\* received response whose status equals the expected status; the synthetic
\* result of the catch block is unhealthy also when the expected status is 503.
HealthyIffExpectedResponse ==
  \A p \in Probes :
    Done(p) =>
      (ResultOf(p).healthy <=>
         (ResultOf(p).error = Undefined /\ ResultOf(p).status = ExpectedOf(p)))

SyntheticMatchesExpected ==
  \E p \in Probes :
    /\ Done(p)
    /\ ResultOf(p).error # Undefined
    /\ ResultOf(p).status = ExpectedOf(p)
    /\ ~ResultOf(p).healthy

\* C5: a probe never throws.  Whatever the requests throw, the call ends
\* resolved with a result, and a failure that is not retried gives status
\* 503, healthy false and the message of the thrown value (or "Unknown
\* error" when it has none) as the error.
ProbeNeverThrows ==
  \A p \in Probes :
    /\ probes[p].pc # "rejected"
    /\ Done(p) => probes[p].result # Undefined
    /\ (Done(p) /\ probes[p].thrown # Undefined) =>
         LET e == Get(probes[p].thrown)
         IN /\ ResultOf(p).status = 503
            /\ ResultOf(p).healthy = FALSE
            /\ ResultOf(p).error =
                 IF e.message = Undefined THEN Some("Unknown error") ELSE e.message

\* a probe that was retried and then ended on a thrown string, which is
\* not retried
ThrownKindsWitness ==
  \E p \in Probes :
    /\ Done(p)
    /\ probes[p].thrown # Undefined
    /\ Get(probes[p].thrown).kind = "string"
    /\ probes[p].retryCount >= 1

\* the probes of session s started so far
Started(ps, s) == {p \in 1..Len(ps) : ps[p].session = s}

\* C6: after cancelFn has run, the timer stays cleared and no new probe of
\* the session is started, whatever happens next.
NoProbeAfterCancel ==
  [][\A s \in Sessions :
       sessions[s].cancelCalls >= 1 =>
         /\ sessions[s].interval = "cleared"
         /\ sessions'[s].interval = "cleared"
         /\ Started(probes', s) = Started(probes, s)]_vars

\* a cancelled session at an instant at which its timer would have fired
CancelledPastFire ==
  \E s \in Sessions :
    /\ sessions[s].cancelCalls >= 1
    /\ Ms(now) > sessions[s].nextFire
    /\ InFlight(s) # {}

\* C7: a second or later call of cancelFn changes neither the timer, nor the
\* streak counters, nor the log file, nor any probe, and raises no error.
CancelIdempotent ==
  [][\A s \in Sessions :
       (sessions[s].cancelCalls >= 1 /\ sessions'[s].cancelCalls = sessions[s].cancelCalls + 1) =>
         /\ sessions'[s] = [sessions[s] EXCEPT !.cancelCalls = @ + 1]
         /\ files' = files
         /\ probes' = probes
         /\ rejections' = rejections
         /\ alive' = alive]_vars

\* cancelFn was called again after a probe was logged behind the first call
CancelledTwice ==
  \E s \in Sessions :
    /\ sessions[s].cancelCalls = 2
    /\ sessions[s].healthyStreak + sessions[s].unhealthyStreak >= 1
    /\ console[Len(console)].msg = "stopped"
    /\ console[Len(console) - 1].msg # "stopped"
    /\ \E i \in 1..Len(console) - 2 : console[i].msg = "stopped"

\* C8: both streak counters are >= 0 and at most one of them is nonzero.
StreaksExclusive ==
  \A s \in Sessions :
    /\ sessions[s].healthyStreak >= 0
    /\ sessions[s].unhealthyStreak >= 0
    /\ sessions[s].healthyStreak = 0 \/ sessions[s].unhealthyStreak = 0

\* the results of session s in the order they were logged
Healthy(s, i) == ResultOf(sessions[s].logged[i]).healthy

\* a streak that began after a run of the other classification
StreakAfterTurn ==
  \E s \in Sessions :
    /\ sessions[s].unhealthyStreak >= 2
    /\ \E i \in 1..Len(sessions[s].logged) : Healthy(s, i)
    /\ \E i \in 1..Len(sessions[s].logged) - 1 : Healthy(s, i) /\ Healthy(s, i + 1)

\* the length of the run of results classified `flag` that ends the first n
\* logged results of session s
RECURSIVE TrailingRun(_, _, _)
TrailingRun(s, n, flag) ==
  IF n = 0 \/ Healthy(s, n) # flag THEN 0 ELSE 1 + TrailingRun(s, n - 1, flag)

\* C9: the counters count the consecutive results of one classification in
\* log order: healthyStreak is the length of the run of healthy results that
\* ends the log, unhealthyStreak that of the run of unhealthy results.
StreaksCountRuns ==
  \A s \in Sessions :
    /\ sessions[s].healthyStreak = TrailingRun(s, Len(sessions[s].logged), TRUE)
    /\ sessions[s].unhealthyStreak = TrailingRun(s, Len(sessions[s].logged), FALSE)

\* the first unhealthy result after 4 healthy ones
RunBroken ==
  \E s \in Sessions :
    LET n == Len(sessions[s].logged)
    IN /\ n >= 5
       /\ ~Healthy(s, n)
       /\ \A i \in n - 4..n - 1 : Healthy(s, i)
       /\ sessions[s].healthyStreak = 0
       /\ sessions[s].unhealthyStreak = 1

\* the lines a step adds to the console
Printed == SubSeq(console', Len(console) + 1, Len(console'))

PassNotices == {"passed", "stable"}

\* C10: the log step of a probe prints a pass notice exactly when the probe
\* is healthy and the updated healthyStreak is 1 or a positive multiple of 5.
PassNoticeAtOneAndFives ==
  [][\A s \in Sessions :
       Len(sessions'[s].logged) = Len(sessions[s].logged) + 1 =>
         LET p == sessions'[s].logged[Len(sessions'[s].logged)]
             health == Get(probes'[p].result)
             streak == sessions'[s].healthyStreak
         IN (\E i \in 1..Len(Printed) : Printed[i].msg \in PassNotices)
              <=> (health.healthy /\ streak \in {1, 5, 10, 15, 20, 25})]_vars

\* the 10th healthy probe in a row was announced
TenthPassAnnounced ==
  \E s \in Sessions :
    /\ sessions[s].healthyStreak = 10
    /\ console[Len(console)].msg = "stable"
    /\ console[Len(console)].n = 10

\* the step is the log step of a probe of session s
LogStep(s) == Len(sessions'[s].logged) = Len(sessions[s].logged) + 1

\* the result that the log step of session s has logged
Logged(s) == Get(probes'[sessions'[s].logged[Len(sessions'[s].logged)]].result)

PrintedMsgs == {Printed[i].msg : i \in 1..Len(Printed)}

\* C11: the log step of a probe prints a failure notice exactly when the
\* probe is unhealthy, and the elevated alert exactly when the updated
\* unhealthyStreak is >= 3: on every such probe, on no other.
AlertFromThreeOn ==
  [][\A s \in Sessions :
       LogStep(s) =>
         /\ "failed" \in PrintedMsgs <=> ~Logged(s).healthy
         /\ "ALERT" \in PrintedMsgs <=> sessions'[s].unhealthyStreak >= 3]_vars

\* the alert was repeated on the 5th unhealthy probe in a row
AlertRepeated ==
  \E s \in Sessions :
    /\ sessions[s].unhealthyStreak = 5
    /\ console[Len(console)].msg = "ALERT"
    /\ console[Len(console)].n = 5
    /\ console[Len(console) - 1].msg = "failed"

\* C12: the log file is append-only with one line per probe: the line of
\* the i-th logged probe is the i-th line, tagged INFO exactly when its
\* result is healthy, and a step never changes or removes a written line.
OneLinePerProbe ==
  /\ [](\A s \in Sessions :
          LET lines == FileLines(sessions[s].logFile)
          IN /\ Len(lines) = Len(sessions[s].logged)
             /\ \A i \in 1..Len(lines) :
                  /\ lines[i].level \in {"INFO", "ERROR"}
                  /\ lines[i].level = "INFO" <=> Healthy(s, i)
                  /\ lines[i].status = ResultOf(sessions[s].logged[i]).status
                  /\ lines[i].timestamp = ResultOf(sessions[s].logged[i]).timestamp)
  /\ [][\A n \in DOMAIN files :
          /\ n \in DOMAIN files'
          /\ Len(files'[n]) \in {Len(files[n]), Len(files[n]) + 1}
          /\ SubSeq(files'[n], 1, Len(files[n])) = files[n]]_vars

\* a log file with an INFO line and then an ERROR line
TwoLinesLogged ==
  \E s \in Sessions :
    LET lines == FileLines(sessions[s].logFile)
    IN /\ Len(lines) = 2
       /\ lines[1].level = "INFO"
       /\ lines[2].level = "ERROR"

\* C13: a received response is never retried, whatever its status: only a
\* thrown error sends a probe to the retry sleep, and a probe ended by a
\* response returns that response's status with a response time and no
\* error, having issued no request after it (one request in all when the
\* first request is answered).
ResponseNeverRetried ==
  /\ [](\A p \in Probes :
          /\ probes[p].pc = "sleep" => probes[p].thrown # Undefined
          /\ (Done(p) /\ probes[p].received # Undefined) =>
               /\ ResultOf(p).status = Get(probes[p].received)
               /\ ResultOf(p).error = Undefined
               /\ ResultOf(p).responseTime # Undefined
               /\ probes[p].requests = probes[p].retryCount + 1)
  /\ [][\A p \in Probes :
          (probes[p].pc = "request" /\ probes'[p].received # Undefined) =>
            /\ probes'[p].pc = "done"
            /\ probes'[p].requests = probes[p].requests]_vars

\* a 500 answered the only request of a probe that expects 200
Got500Once ==
  \E p \in Probes :
    /\ Done(p)
    /\ probes[p].received = Some(500)
    /\ ExpectedOf(p) = 200
    /\ probes[p].requests = 1
    /\ ~ResultOf(p).healthy

InitialOf(s) == CHOOSE p \in ProbesOf(s) : probes[p].kind = "initial"

\* C14 (as claimed): the immediate probe is logged before any timer-driven
\* probe of the session starts, and its line is the first of the session.
ImmediateProbeLoggedFirst ==
  \A s \in Sessions :
    /\ (\E p \in ProbesOf(s) : probes[p].kind = "timer") => Done(InitialOf(s))
    /\ sessions[s].logged # <<>> => sessions[s].logged[1] = InitialOf(s)

TimerProbes(s) == Cardinality({p \in ProbesOf(s) : probes[p].kind = "timer"})

\* the timer firings of session s that fall due up to the last instant
DueFirings(s) ==
  (Ms(limits.horizon) - sessions[s].logFile) \div IntervalOf(sessions[s].config)

\* C15: only a call of the cancel function disarms the timer: whatever the
\* probes return, the timer of a session that was never cancelled is armed,
\* and when due timers are fired such a session starts a timer-driven probe
\* at every interval up to the last instant.
StoppedOnlyByCancel ==
  /\ [][\A s \in Sessions :
          (sessions[s].interval = "armed" /\ sessions'[s].interval # "armed") =>
            sessions'[s].cancelCalls = sessions[s].cancelCalls + 1]_vars
  /\ [](\A s \in Sessions :
          sessions[s].cancelCalls = 0 => sessions[s].interval = "armed")
  /\ <>[](\A s \in Sessions :
            sessions[s].cancelCalls = 0 => TimerProbes(s) = DueFirings(s))

\* a session never cancelled that has fired three times, through an alert
\* and a probe that used up its retries
FiredThroughAlert ==
  \E s \in Sessions :
    /\ sessions[s].cancelCalls = 0
    /\ TimerProbes(s) = 3
    /\ DueFirings(s) = 3
    /\ sessions[s].unhealthyStreak >= AlertThreshold
    /\ \E p \in ProbesOf(s) :
         Done(p) /\ probes[p].requests = MAX_RETRIES + 1 /\ EndedOnTransportFailure(p)

\* C16 (as claimed): a probe result logged in session a, or a cancel of
\* session a, changes neither the timer, the streak counters nor the log
\* file of another session b, also when both were started at one instant.
SessionsIsolated ==
  [][\A a \in Sessions, b \in Sessions :
       (a # b /\ (LogStep(a) \/ sessions'[a].cancelCalls # sessions[a].cancelCalls)) =>
         /\ sessions'[b] = sessions[b]
         /\ LinesIn(files', sessions[b].logFile) = LinesIn(files, sessions[b].logFile)]_vars

\* how long probe p has been running
Elapsed(p) == Ms(now) - probes[p].startedAt

\* C17 (as claimed): a probe is never in flight for longer than
\* timeoutMs + retries x 1000 ms.
ProbeWithinOneTimeout ==
  \A p \in Probes :
    ~Done(p) =>
      Elapsed(p) <= TimeoutOf(sessions[probes[p].session].config)
                      + MAX_RETRIES * RETRY_DELAY_MS

\* C17 (amended): a probe makes at most 4 attempts, each pending for at most
\* timeoutMs, and is never in flight for longer than
\* 4 x timeoutMs + 3 x 1000 ms.
ProbeWithinFourTimeouts ==
  \A p \in Probes :
    LET timeoutMs == TimeoutOf(sessions[probes[p].session].config)
    IN /\ probes[p].requests <= MAX_RETRIES + 1
       /\ probes[p].slept <= MAX_RETRIES * RETRY_DELAY_MS
       /\ ~Done(p) =>
            /\ Elapsed(p) <= (MAX_RETRIES + 1) * timeoutMs + MAX_RETRIES * RETRY_DELAY_MS
            /\ probes[p].pc = "request" => Ms(now) - probes[p].since <= timeoutMs
            /\ probes[p].pc = "sleep" => Ms(now) - probes[p].since <= RETRY_DELAY_MS

\* a probe with timeoutMs = 1000 whose 4th request times out 7000 ms after
\* the probe began
ProbeLastsSevenSeconds ==
  \E p \in Probes :
    /\ TimeoutOf(sessions[probes[p].session].config) = 1000
    /\ probes[p].pc = "request"
    /\ probes[p].requests = 4
    /\ Elapsed(p) = 7000

\* C18 (as claimed): a failed append in the log step of a probe is thrown
\* to the caller of start, so none is left as a rejected promise that no
\* caller awaits or handles.
SinkFailureReachesCaller == rejections = <<>>

\* C19 (as claimed): a failed request of makeVercelApiCall is retried
\* exactly when retries remain and the failure is a response with status
\* >= 500 or a connection reset (code ECONNRESET); any other failure is
\* thrown at once.
ApiRetriesOn5xxOrReset ==
  [][(call.pc = "request" /\ call'.pc \in {"sleep", "thrown"}) =>
       LET error == Get(call'.caught)
       IN call'.pc = "sleep" <=>
            /\ call.retryCount < VERCEL_MAX_RETRIES
            /\ \/ (error.status # Undefined /\ Get(error.status) >= 500)
               \/ error.code = "ECONNRESET"]_vars

\* the pcs of the catch block, and how deploy ends after an error
AfterError == {"thrown", "sendFailure", "sendFailureReport", "aborted"}

\* the API call awaited by deploy has failed, or has answered the trigger
\* without a url
StepFailed ==
  \/ deploy.pc = "setEnv" /\ call.pc = "thrown"
  \/ deploy.pc = "trigger" /\ call.pc = "thrown"
  \/ deploy.pc = "trigger" /\ call.pc = "returned" /\ Get(call.data).url = Undefined

ApiAtMostFourRequests ==
  /\ [](/\ call.requests <= VERCEL_MAX_RETRIES + 1
        /\ call.retryCount <= VERCEL_MAX_RETRIES
        /\ call.slept = call.retryCount * VERCEL_RETRY_DELAY_MS
        /\ call.pc \in {"request", "sleep", "returned"} =>
             call.requests = call.retryCount + 1
        /\ call.pc = "returned" => call.data # Undefined /\ call.caught = Undefined
        /\ (call.pc = "thrown" /\ token) => call.caught # Undefined
        /\ ~token => /\ call.pc \in {"idle", "thrown"}
                     /\ call.requests = 0
                     /\ call.retryCount = 0
                     /\ call.slept = 0)
  /\ [][(call.pc = "request" /\ call.retryCount = VERCEL_MAX_RETRIES
           /\ call'.caught # Undefined) =>
          call'.pc = "thrown" /\ call'.requests = call.requests]_vars

\* the 4th request failed on a 500 after three waits of 2000 ms, and the
\* call has thrown
FourthApiRequestThrown ==
  /\ call.pc = "thrown"
  /\ call.requests = 4
  /\ call.slept = 6000
  /\ Get(call.caught).status = Some(500)

\* the errors the steps of the try block end on
StepErrors ==
  {"Pre-deployment checks failed", "Environment validation failed",
   "Failed to set environment variables", "Failed to deploy to Vercel",
   "Deployment started but no URL was returned",
   "EACCES: permission denied, mkdir"}

Undelivered(d) == \A i \in 1..Len(d.events) : ~d.events[i].delivered

\* C22: an analytics request that fails never changes how deploy ends: a
\* run returns the url with no error whatever became of its events, a run
\* is aborted only on the error of a step, and the step in which an event
\* is lost sets no error unless a step has run and failed in it.
AnalyticsNeverDecides ==
  /\ [](/\ deploy.pc = "returned" => deploy.error = Undefined /\ deploy.url # Undefined
        /\ deploy.pc \in {"sendFailure", "sendFailureReport", "aborted"} =>
             /\ deploy.error # Undefined
             /\ Get(deploy.error) \in StepErrors)
  /\ [][(Len(deploy'.events) > Len(deploy.events)
           /\ ~deploy'.events[Len(deploy'.events)].delivered) =>
          \/ deploy'.error = deploy.error
          \/ /\ Len(deploy'.steps) > Len(deploy.steps)
             /\ Get(deploy'.error) \in StepErrors]_vars

\* deploy returned the url although none of its three analytics requests
\* was delivered
ReturnedWithoutAnalytics ==
  /\ deploy.pc = "returned"
  /\ deploy.url # Undefined
  /\ Len(deploy.events) = 3
  /\ Undelivered(deploy)
  /\ sessions # <<>>

\* C23: every result has exactly one of the fields responseTime and
\* error: a result with error has status 503, healthy false and no
\* responseTime; a result with responseTime carries the status of the
\* response received and no error.
OneOfTimeAndError ==
  \A p \in Probes :
    Done(p) =>
      LET health == ResultOf(p)
      IN /\ (health.error # Undefined) # (health.responseTime # Undefined)
         /\ health.error # Undefined =>
              /\ health.status = 503
              /\ ~health.healthy
              /\ probes[p].received = Undefined
              /\ probes[p].thrown # Undefined
         /\ health.responseTime # Undefined =>
              /\ probes[p].received # Undefined
              /\ health.status = Get(probes[p].received)

\* one session has logged a received 503 and a synthetic 503
BothKindsOf503 ==
  \E p \in Probes, q \in Probes :
    /\ Done(p) /\ Done(q)
    /\ probes[p].session = probes[q].session
    /\ ResultOf(p).status = 503 /\ ResultOf(p).responseTime # Undefined
    /\ ResultOf(q).status = 503 /\ ResultOf(q).error # Undefined

\* C24 (as claimed): within a session the probes are logged, and the streak
\* counters updated, in the order in which the probes were started, and the
\* timestamps of successive log lines never decrease.
LoggedInStartOrder ==
  \A s \in Sessions :
    LET logged == sessions[s].logged
        lines == FileLines(sessions[s].logFile)
    IN /\ \A i \in 1..Len(logged), j \in 1..Len(logged) :
            i < j => probes[logged[i]].startedAt <= probes[logged[j]].startedAt
       /\ \A i \in 1..Len(lines), j \in 1..Len(lines) :
            i < j => lines[i].timestamp <= lines[j].timestamp

EventNames == {deploy.events[i].name : i \in 1..Len(deploy.events)}

\* C25 (as claimed): a run of deploy with analytics never sends both
\* deploy_success and deploy_failure, and a run that has sent
\* deploy_success has no error and is not aborted.
SuccessExcludesFailure ==
  /\ ~({"deploy_success", "deploy_failure"} \subseteq EventNames)
  /\ "deploy_success" \in EventNames =>
       deploy.error = Undefined /\ deploy.pc # "aborted"

=============================================================================
